---- MODULE Spec2Model ----
(***************************************************************************)
(* The post / vote synchronisation layer of BirianyDibe (src/server.ts):  *)
(* the SQLite store (users, posts, votes), the in-memory fallback list,   *)
(* the three HTTP handlers GET /api/posts, POST /api/posts and            *)
(* POST /api/votes, and the Socket.io broadcast of post:created and       *)
(* post:voted.                                                            *)
(*                                                                        *)
(* Node runs one handler body at a time and better-sqlite3 is            *)
(* synchronous, so a handler from its `await getDb()` to its response is  *)
(* one step.  A store statement may throw; the input `fail` of a handler  *)
(* names the statement that throws (0: none).                             *)
(***************************************************************************)
EXTENDS Integers, Sequences, FiniteSets, TLC

VARIABLES
    nodeEnv,      \* process.env.NODE_ENV
    ioInstance,   \* TRUE iff the Socket.io server was constructed
    db,           \* the module-level db: "none" (null), "real" or "mock"
    users,        \* rows of table users
    posts,        \* rows of table posts
    votes,        \* rows of table votes (the autoincrement id is never read)
    memoryPosts,  \* the in-memory fallback list
    now,          \* the clock read by CURRENT_TIMESTAMP and new Date()
    connected,    \* the sockets connected to the Socket.io server
    req,          \* the request handled last (see Req)
    res,          \* the response to it
    emits,        \* the events ioInstance.emit was called with while handling it
    recv,         \* per client, the events those emits sent to its socket
    lastCast,     \* history: per (post, user), <<the value of the last upsert that ran>>
    reports,      \* rows of table reports, in the order of their autoincrement id
    answered,     \* history: the bodies of the 201 responses to create-post
    inbox,        \* per client, the events sent to its socket and not yet handled
    local,        \* per client, the `posts` state of App
    fetch,        \* per client, the initial GET /api/posts: its state and response
    pending,      \* per client, its POST /api/votes requests not yet handled
    clicks,       \* per client, the number of its handleVote calls
    emitted,      \* history: every event emitted, with the sockets connected then
    handled,      \* history: per client, the numbers of the events it handled
    voteEvent,    \* history: the number of the event of the last vote handled, or 0
    synced,       \* history: per client, the last vote event it applied to a post it held
    appInstance,  \* the module-level appInstance: 0 (null) or the number of the app
    cachedApp,    \* cachedApp of api/index.ts: 0 (null) or the number of the app
    apps,         \* the number of express() calls
    httpServers,  \* the number of createServer(app) calls
    routes,       \* the number of times the API routes were registered
    listens,      \* the number of httpServer.listen calls
    starts,       \* per call of startServer, where it is and the app it returned
    dbObject,     \* the number of the Database object in db, 0 if none or the mock
    opens,        \* the number of new Database(dbPath) calls
    execs,        \* the number of runs of the schema
    calls         \* per request, where its getDb call is and what it returned

\* the state the handlers of posts and votes read and write
serverVars == <<nodeEnv, ioInstance, db, users, posts, votes, memoryPosts, now,
                connected, req, res, emits, recv, lastCast>>

\* the state they leave alone
requestVars == <<reports, answered>>
clientVars == <<inbox, local, fetch, pending, clicks, emitted, handled, voteEvent, synced>>
startVars == <<appInstance, cachedApp, apps, httpServers, routes, listens, starts>>
getDbVars == <<dbObject, opens, execs, calls>>
otherVars == <<requestVars, clientVars, startVars, getDbVars>>

vars == <<serverVars, otherVars>>

----------------------------------------------------------------------------
(* Bounds and input sets *)

MaxFallback == 2
MaxReports == 2
MaxEmits == 2
MaxClicks == 1

NodeEnvs == {"production", "development"}
Clients == {"c1"}
UserIds == {"u1", "u2"}
PostIds == {"p1", "p2"}
PostUserIds == {"u1"}
VotePostIds == {"p1", "sample-1"}
VoteTypes == {0, 1}

Undefined == "<undefined>"
Null == "<null>"

PlaceNames == {Undefined, "", "Test Mosque"}
Descriptions == {"biriyani"}

Falsy(v) == v = Undefined \/ v = Null \/ v = ""

CreateBodies ==
    [id : PostIds, user_id : PostUserIds, place_name : PlaceNames,
     description : Descriptions, lat : {"23.7"}, lng : {"90.4"},
     distribution_time : {"20:00"}]

\* every user votes on the created post, one of them also on a seeded one
VoteBodies ==
    {b \in [post_id : VotePostIds, user_id : UserIds, vote_type : VoteTypes] :
        b.post_id = "p1" \/ b.user_id = "u1"}

ReportBodies == [post_id : {"p1"}, user_id : {"u1"}, reason : {"spam"}]

\* A timestamp is the instant of the clock in the format it was written in
SqlTime(t) == [fmt |-> "sql", t |-> t]
IsoTime(t) == [fmt |-> "iso", t |-> t]

----------------------------------------------------------------------------
(* getDb: the handle is opened on first use; a failure installs the mock *)

GetDb(outcome) == IF db # "none" THEN db ELSE outcome

\* what opening the database can come to: the handle, or the mock of the catch
DbOutcomes == IF db = "none" THEN {"real", "mock"} ELSE {db}

\* the statements of a handler that can throw: those of a real database only
Fails(database, n) == IF database = "real" THEN 0..n ELSE {0}

----------------------------------------------------------------------------
(* The seeded fallback list.  Its four new Date() are read at module load,   *)
(* instant 0 of the clock; requests are handled from instant 1 on.  The      *)
(* Bengali texts of the two samples are abbreviated.                         *)

SeedPosts ==
    << [id |-> "sample-1", user_id |-> "system", user_name |-> "admin",
        place_name |-> "Dhaka University area", description |-> "sample-1",
        lat |-> "23.733", lng |-> "90.393", distribution_time |-> "load-time",
        true_votes |-> 15, false_votes |-> 1, created_at |-> IsoTime(0)],
       [id |-> "sample-2", user_id |-> "system", user_name |-> "admin",
        place_name |-> "Mirpur 10 circle", description |-> "sample-2",
        lat |-> "23.807", lng |-> "90.368", distribution_time |-> "load-time",
        true_votes |-> 8, false_votes |-> 0, created_at |-> IsoTime(0)] >>

NoReq == [kind |-> "none", id |-> Undefined, place_name |-> Undefined,
          path |-> "none", threw |-> FALSE, revote |-> FALSE]
NoRes == [status |-> 0, body |-> <<>>]
NoRecv == [c \in Clients |-> <<>>]

\* The callers of startServer: the module itself (src/server.ts:246-253) and
\* invocations of the serverless handler (src/api/index.ts)
Starts == {"module", "a1", "a2"}
\* The requests that call getDb while the database is being opened
Requests == {"r1", "r2"}

Idle == [pc |-> "idle", app |-> 0]
NotCalled == [pc |-> "idle", db |-> "none", n |-> 0]

\* the caller whose startServer built the app: the module, or in production
\* (where the module does not start the server) the first serverless invocation
FirstCaller == IF nodeEnv = "production" THEN "a1" ELSE "module"

\* What the loaded module holds before any request: no database handle, the
\* seeded fallback list, and a client that has mounted and sent its initial GET
Loaded ==
    /\ nodeEnv \in NodeEnvs
    /\ db = "none"
    /\ users = {}
    /\ posts = {}
    /\ votes = {}
    /\ memoryPosts = SeedPosts
    /\ now = 1
    /\ connected = {}
    /\ req = NoReq
    /\ res = NoRes
    /\ emits = <<>>
    /\ recv = NoRecv
    /\ lastCast = [k \in VotePostIds \X UserIds |-> <<>>]
    /\ reports = <<>>
    /\ answered = {}
    /\ inbox = [c \in Clients |-> <<>>]
    /\ local = [c \in Clients |-> <<>>]
    /\ fetch = [c \in Clients |-> [state |-> "sent", body |-> <<>>]]
    /\ pending = [c \in Clients |-> <<>>]
    /\ clicks = [c \in Clients |-> 0]
    /\ emitted = <<>>
    /\ handled = [c \in Clients |-> <<>>]
    /\ voteEvent = 0
    /\ synced = [c \in Clients |-> 0]
    /\ dbObject = 0
    /\ opens = 0
    /\ execs = 0
    /\ calls = [r \in Requests |-> NotCalled]

\* The module loaded, before startServer is called
InitBoot ==
    /\ Loaded
    /\ ioInstance = FALSE
    /\ appInstance = 0
    /\ cachedApp = 0
    /\ apps = 0
    /\ httpServers = 0
    /\ routes = 0
    /\ listens = 0
    /\ starts = [s \in Starts |-> Idle]

\* The server started by its first caller, before any request
Init ==
    /\ Loaded
    /\ ioInstance = (nodeEnv # "production")
    /\ appInstance = 1
    /\ cachedApp = IF nodeEnv = "production" THEN 1 ELSE 0
    /\ apps = 1
    /\ httpServers = 1
    /\ routes = 1
    /\ listens = IF nodeEnv = "production" THEN 1 ELSE 2
    /\ starts = [s \in Starts |-> IF s = FirstCaller THEN [pc |-> "done", app |-> 1]
                                  ELSE Idle]

----------------------------------------------------------------------------
(* The broadcast channel *)

\* The event emitted on io and again on ioInstance
Emit_Twice(topic, payload) ==
    IF ioInstance
    THEN << [topic |-> topic, payload |-> payload], [topic |-> topic, payload |-> payload] >>
    ELSE <<>>

\* The emit without its `if (ioInstance)` guard
Emit_Unguarded(topic, payload) == << [topic |-> topic, payload |-> payload] >>

\* ioInstance.emit(topic, payload), guarded by `if (ioInstance)`
Emit(topic, payload) ==
    IF ioInstance THEN << [topic |-> topic, payload |-> payload] >> ELSE <<>>

\* Socket.io sends each emitted event once to every connected socket
Deliver(evs) == [c \in Clients |-> IF c \in connected THEN evs ELSE <<>>]

Connect(c) ==
    /\ ioInstance
    /\ c \notin connected
    /\ connected' = connected \cup {c}
    /\ UNCHANGED <<nodeEnv, ioInstance, db, users, posts, votes, memoryPosts,
                   now, req, res, emits, recv, lastCast>>

Disconnect(c) ==
    /\ c \in connected
    /\ connected' = connected \ {c}
    /\ UNCHANGED <<nodeEnv, ioInstance, db, users, posts, votes, memoryPosts,
                   now, req, res, emits, recv, lastCast>>

\* Only the order and the equality of timestamps are observable, so the clock
\* advances once past each instant that some record was stamped with.
Stamped(t) ==
    \/ \E p \in posts : p.created_at.t = t
    \/ \E i \in 1..Len(memoryPosts) : memoryPosts[i].created_at.t = t

Tick ==
    /\ Stamped(now)
    /\ now' = now + 1
    /\ UNCHANGED <<nodeEnv, ioInstance, db, users, posts, votes, memoryPosts,
                   connected, req, res, emits, recv, lastCast>>

----------------------------------------------------------------------------
(* The SQL statements of the handlers, as operators on the tables.  A get() *)
(* is a sequence of at most one row: <<>> is "no row" (undefined / null).   *)

\* INSERT OR IGNORE INTO users (id, name) VALUES (?, "Anonymous User")
InsertOrIgnoreUser(us, uid) ==
    IF \E u \in us : u.id = uid
    THEN us
    ELSE us \cup {[id |-> uid, name |-> "Anonymous User",
                   email |-> Null, avatar |-> Null]}

\* posts.id is the PRIMARY KEY: a second INSERT of an id throws
PostIdTaken(ps, id) == \E p \in ps : p.id = id

\* INSERT INTO posts (id, user_id, place_name, description, lat, lng,
\* distribution_time) VALUES (...); created_at DEFAULT CURRENT_TIMESTAMP
InsertPost(ps, b, t) ==
    ps \cup {[id |-> b.id, user_id |-> b.user_id, place_name |-> b.place_name,
              description |-> b.description, lat |-> b.lat, lng |-> b.lng,
              distribution_time |-> b.distribution_time,
              created_at |-> SqlTime(t)]}

\* LEFT JOIN users u ON p.user_id = u.id ... u.name as user_name
UserName(us, uid) ==
    IF \E u \in us : u.id = uid
    THEN (CHOOSE u \in us : u.id = uid).name
    ELSE Null

\* SELECT COUNT(*) FROM votes WHERE post_id = ? AND vote_type = ?
CountVotes(vs, pid, type) ==
    Cardinality({v \in vs : v.post_id = pid /\ v.vote_type = type})

\* One row of SELECT p.*, u.name as user_name, <tv> as true_votes, <fv> as false_votes
JoinPost(p, us, tv, fv) ==
    [id |-> p.id, user_id |-> p.user_id, place_name |-> p.place_name,
     description |-> p.description, lat |-> p.lat, lng |-> p.lng,
     distribution_time |-> p.distribution_time, created_at |-> p.created_at,
     user_name |-> UserName(us, p.user_id), true_votes |-> tv, false_votes |-> fv]

\* The new post read back with the counted tallies of the list query
SelectNewPost_Counted(ps, us, id) ==
    IF \E p \in ps : p.id = id
    THEN << JoinPost(CHOOSE p \in ps : p.id = id, us,
                     CountVotes(votes, id, 1), CountVotes(votes, id, 0)) >>
    ELSE <<>>

\* SELECT p.*, u.name as user_name, 0 as true_votes, 0 as false_votes
\* FROM posts p LEFT JOIN users u ... WHERE p.id = ?   (.get)
SelectNewPost(ps, us, id) ==
    IF \E p \in ps : p.id = id
    THEN << JoinPost(CHOOSE p \in ps : p.id = id, us, 0, 0) >>
    ELSE <<>>

\* ORDER BY p.created_at ASC
NewestFirst_Ascending(a, b) == a.created_at.t <= b.created_at.t

\* ORDER BY p.created_at DESC
NewestFirst(a, b) == a.created_at.t >= b.created_at.t

\* The list query (.all): every post row with its user name and the two
\* counted tallies, ordered by created_at DESC.  SQL leaves the order of rows
\* with equal created_at open, so the result is any such ordering.
SelectPosts(ps, us, vs) ==
    LET rows == {JoinPost(p, us, CountVotes(vs, p.id, 1), CountVotes(vs, p.id, 0)) :
                    p \in ps}
        n == Cardinality(rows)
    IN  {s \in [1..n -> rows] :
            /\ \A i, j \in 1..n : i # j => s[i] # s[j]
            /\ \A i, j \in 1..n : i < j => NewestFirst(s[i], s[j])}

\* A plain INSERT: the ON CONFLICT clause forgotten (and no UNIQUE constraint)
UpsertVote_InsertOnly(vs, pid, uid, type) ==
    vs \cup {[post_id |-> pid, user_id |-> uid, vote_type |-> type]}

\* INSERT INTO votes (post_id, user_id, vote_type) VALUES (?, ?, ?)
\* ON CONFLICT(post_id, user_id) DO UPDATE SET vote_type = excluded.vote_type
UpsertVote(vs, pid, uid, type) ==
    IF \E v \in vs : v.post_id = pid /\ v.user_id = uid
    THEN {IF v.post_id = pid /\ v.user_id = uid
          THEN [v EXCEPT !.vote_type = type] ELSE v : v \in vs}
    ELSE vs \cup {[post_id |-> pid, user_id |-> uid, vote_type |-> type]}

\* SELECT (SELECT COUNT(*) ... vote_type = 1) as true_votes,
\*        (SELECT COUNT(*) ... vote_type = 0) as false_votes   (.get)
SelectStats(vs, pid) ==
    << [true_votes |-> CountVotes(vs, pid, 1),
        false_votes |-> CountVotes(vs, pid, 0)] >>

\* { post_id, ...stats }: spreading null adds nothing
VotePayload(pid, stats) ==
    IF stats = <<>>
    THEN [post_id |-> pid]
    ELSE [post_id |-> pid, true_votes |-> stats[1].true_votes,
          false_votes |-> stats[1].false_votes]

\* The catch answering with the tallies counted before the request
VoteCatchBody_Counted(pid) ==
    [post_id |-> pid, true_votes |-> CountVotes(votes, pid, 1),
     false_votes |-> CountVotes(votes, pid, 0)]

\* the catch of POST /api/votes: res.json({ post_id, true_votes: 0, false_votes: 0 })
VoteCatchBody(pid) == [post_id |-> pid, true_votes |-> 0, false_votes |-> 0]

\* if (place_name === undefined): an empty name passes
PlaceNameMissing_UndefinedOnly(b) == b.place_name = Undefined

\* if (!place_name)
PlaceNameMissing(b) == Falsy(b.place_name)

\* const memPost = { id, ..., user_name: "Anonymous User", true_votes: 0,
\*                   false_votes: 0, created_at: new Date().toISOString() }
MemPost(b, t) ==
    [id |-> b.id, user_id |-> b.user_id, place_name |-> b.place_name,
     description |-> b.description, lat |-> b.lat, lng |-> b.lng,
     distribution_time |-> b.distribution_time, user_name |-> "Anonymous User",
     true_votes |-> 0, false_votes |-> 0, created_at |-> IsoTime(t)]

\* memoryPosts.push(memPost)
Unshift_Push(list, p) == list \o <<p>>

\* memoryPosts.unshift(memPost)
Unshift(list, p) == <<p>> \o list

----------------------------------------------------------------------------
(* The handlers *)

\* What is kept of a handled request: the handler, the post id and the
\* place_name of its body, the branch that answered, whether a store statement
\* threw, whether its upsert changed a stored vote
Req(kind, id, place, path, threw, revote) ==
    [kind |-> kind, id |-> id, place_name |-> place, path |-> path,
     threw |-> threw, revote |-> revote]

\* Which statements can throw: only those of a real database (the mock's
\* run/get/all never throw)
CanFail(database, fail) == fail = 0 \/ database = "real"

\* The inner try of POST /api/posts on the tables: the three statements in
\* order, stopping at the first that throws.  `row` is newPost (<<>> if the
\* block threw or the mock returned null).
CreateInStore(database, b, fail) ==
    IF database = "mock"
    THEN [users |-> users, posts |-> posts, row |-> <<>>, threw |-> FALSE]
    ELSE IF fail = 1
    THEN [users |-> users, posts |-> posts, row |-> <<>>, threw |-> TRUE]
    ELSE LET us == InsertOrIgnoreUser(users, b.user_id) IN
         IF fail = 2 \/ PostIdTaken(posts, b.id)
         THEN [users |-> us, posts |-> posts, row |-> <<>>, threw |-> TRUE]
         ELSE LET ps == InsertPost(posts, b, now) IN
              IF fail = 3
              THEN [users |-> us, posts |-> ps, row |-> <<>>, threw |-> TRUE]
              ELSE [users |-> us, posts |-> ps,
                    row |-> SelectNewPost(ps, us, b.id), threw |-> FALSE]

\* app.post("/api/posts")
CreatePost(b, outcome, fail) ==
    LET database == GetDb(outcome) IN
    /\ CanFail(database, fail)
    /\ db' = database
    /\ IF PlaceNameMissing(b)
       THEN /\ req' = Req("create", b.id, b.place_name, "invalid", FALSE, FALSE)
            /\ res' = [status |-> 400, body |-> << [error |-> "Place name is required"] >>]
            /\ emits' = <<>>
            /\ recv' = NoRecv
            /\ UNCHANGED <<users, posts, memoryPosts>>
       ELSE LET st == CreateInStore(database, b, fail) IN
            /\ users' = st.users
            /\ posts' = st.posts
            /\ IF st.row # <<>>
               THEN /\ req' = Req("create", b.id, b.place_name, "store", FALSE, FALSE)
                    /\ emits' = Emit("post:created", st.row[1])
                    /\ recv' = Deliver(emits')
                    /\ res' = [status |-> 201, body |-> << st.row[1] >>]
                    /\ UNCHANGED memoryPosts
               ELSE /\ Len(memoryPosts) < Len(SeedPosts) + MaxFallback
                    /\ req' = Req("create", b.id, b.place_name, "memory", st.threw, FALSE)
                    /\ memoryPosts' = Unshift(memoryPosts, MemPost(b, now))
                    /\ emits' = Emit("post:created", MemPost(b, now))
                    /\ recv' = Deliver(emits')
                    /\ res' = [status |-> 201, body |-> << MemPost(b, now) >>]
    /\ UNCHANGED <<nodeEnv, ioInstance, votes, now, connected, lastCast>>

\* app.post("/api/votes")
CastVote(b, outcome, fail) ==
    LET database == GetDb(outcome)
        wrote == database = "real" /\ fail # 1
        vs == IF wrote THEN UpsertVote(votes, b.post_id, b.user_id, b.vote_type)
              ELSE votes
        threw == database = "real" /\ fail \in {1, 2}
        revote == wrote /\ \E v \in votes : /\ v.post_id = b.post_id
                                             /\ v.user_id = b.user_id
                                             /\ v.vote_type # b.vote_type
        stats == IF database = "real" THEN SelectStats(vs, b.post_id) ELSE <<>>
    IN
    /\ CanFail(database, fail)
    /\ fail \in 0..2
    /\ db' = database
    /\ votes' = vs
    /\ lastCast' = IF wrote
                   THEN [lastCast EXCEPT ![<<b.post_id, b.user_id>>] = <<b.vote_type>>]
                   ELSE lastCast
    /\ IF threw
       THEN /\ req' = Req("vote", b.post_id, Undefined, "catch", TRUE, revote)
            /\ emits' = <<>>
            /\ recv' = NoRecv
            /\ res' = [status |-> 200, body |-> << VoteCatchBody(b.post_id) >>]
       ELSE /\ req' = Req("vote", b.post_id, Undefined, "ok", FALSE, revote)
            /\ emits' = Emit("post:voted", VotePayload(b.post_id, stats))
            /\ recv' = Deliver(emits')
            /\ res' = [status |-> 200, body |-> << VotePayload(b.post_id, stats) >>]
    /\ UNCHANGED <<nodeEnv, ioInstance, users, posts, memoryPosts, now, connected>>

\* The fallback list only when the store has no posts
ListBody_StoreElseFallback(rows, list) == IF rows # <<>> THEN rows ELSE list

\* res.json([...posts, ...memoryPosts])
ListBody(rows, list) == rows \o list

\* app.get("/api/posts")
ListPosts(outcome, fail) ==
    LET database == GetDb(outcome) IN
    /\ CanFail(database, fail)
    /\ fail \in 0..1
    /\ db' = database
    /\ emits' = <<>>
    /\ recv' = NoRecv
    /\ IF fail = 1
       THEN /\ req' = Req("list", Undefined, Undefined, "catch", TRUE, FALSE)
            /\ res' = [status |-> 200, body |-> memoryPosts]
       ELSE /\ req' = Req("list", Undefined, Undefined, "ok", FALSE, FALSE)
            /\ \E rows \in (IF database = "real"
                            THEN SelectPosts(posts, users, votes) ELSE {<<>>}) :
                  res' = [status |-> 200, body |-> ListBody(rows, memoryPosts)]
    /\ UNCHANGED <<nodeEnv, ioInstance, users, posts, votes, memoryPosts, now,
                   connected, lastCast>>

\* INSERT INTO reports (post_id, user_id, reason) VALUES (?, ?, ?)
InsertReport(rs, b) ==
    Append(rs, [id |-> Len(rs) + 1, post_id |-> b.post_id, user_id |-> b.user_id,
                reason |-> b.reason])

\* app.post("/api/reports")
CreateReport(b, outcome, fail) ==
    LET database == GetDb(outcome) IN
    /\ CanFail(database, fail)
    /\ fail \in 0..1
    /\ db' = database
    /\ emits' = <<>>
    /\ recv' = NoRecv
    /\ IF fail = 1
       THEN /\ req' = Req("report", b.post_id, Undefined, "catch", TRUE, FALSE)
            /\ res' = [status |-> 500, body |-> << [error |-> "Failed to report"] >>]
            /\ UNCHANGED reports
       ELSE /\ req' = Req("report", b.post_id, Undefined, "ok", FALSE, FALSE)
            /\ res' = [status |-> 201, body |-> << [success |-> TRUE] >>]
            /\ IF database = "real"
               THEN /\ Len(reports) < MaxReports
                    /\ reports' = InsertReport(reports, b)
               ELSE UNCHANGED reports
    /\ UNCHANGED <<nodeEnv, ioInstance, users, posts, votes, memoryPosts, now,
                   connected, lastCast>>

----------------------------------------------------------------------------

\* One step of the server on requests drawn from the given bodies
NextOn(createBodies, voteBodies) ==
    \/ \E b \in createBodies, o \in DbOutcomes : \E f \in Fails(o, 3) :
          CreatePost(b, o, f) /\ UNCHANGED otherVars
    \/ \E b \in voteBodies, o \in DbOutcomes : \E f \in Fails(o, 2) :
          CastVote(b, o, f) /\ UNCHANGED otherVars
    \/ \E o \in DbOutcomes : \E f \in Fails(o, 1) :
          ListPosts(o, f) /\ UNCHANGED otherVars
    \/ \E c \in Clients : Connect(c) /\ UNCHANGED otherVars
    \/ \E c \in Clients : Disconnect(c) /\ UNCHANGED otherVars
    \/ Tick /\ UNCHANGED otherVars

\* Every vote, posts created under one id
FewCreateBodies == {b \in CreateBodies : b.id = "p1"}

NextVotes == NextOn(FewCreateBodies, VoteBodies)

SpecVotes == Init /\ [][NextVotes]_vars

\* Posts under every id, one vote by one user on one post
FewVoteBodies ==
    {b \in VoteBodies : b.post_id = "p1" /\ b.user_id = "u1" /\ b.vote_type = 1}

NextPosts == NextOn(CreateBodies, FewVoteBodies)

SpecPosts == Init /\ [][NextPosts]_vars

\* The four kinds of request interleaved within one instant of the clock,
\* valid creates under every id, with the record of what the creates were
\* answered
ValidCreateBodies == {b \in CreateBodies : b.place_name = "Test Mosque"}

Answered201 == IF res'.status = 201 THEN answered \cup {res'.body[1]} ELSE answered

NextRequests ==
    \/ \E b \in ValidCreateBodies, o \in DbOutcomes : \E f \in Fails(o, 3) :
          CreatePost(b, o, f) /\ answered' = Answered201
                              /\ UNCHANGED <<reports, clientVars, startVars, getDbVars>>
    \/ \E b \in FewVoteBodies, o \in DbOutcomes : \E f \in Fails(o, 2) :
          CastVote(b, o, f) /\ UNCHANGED otherVars
    \/ \E o \in DbOutcomes : \E f \in Fails(o, 1) :
          ListPosts(o, f) /\ UNCHANGED otherVars
    \/ \E b \in ReportBodies, o \in DbOutcomes : \E f \in Fails(o, 1) :
          CreateReport(b, o, f) /\ UNCHANGED <<answered, clientVars, startVars, getDbVars>>

SpecRequests == Init /\ [][NextRequests]_vars

----------------------------------------------------------------------------
(* The client (src/src/App.tsx): on mount it opens its socket and sends the  *)
(* initial GET /api/posts; it keeps the list `posts`, applies post:created   *)
(* and post:voted to it, and votes with an optimistic update.  A tally in    *)
(* the client is a JavaScript value: a number, undefined or NaN.             *)

Num(n) == [is |-> "number", n |-> n]
Undef == [is |-> "undefined", n |-> 0]
NaN == [is |-> "NaN", n |-> 0]

\* r[f] of a parsed JSON object: undefined when the field is absent
JsonField(r, f) == IF f \in DOMAIN r THEN Num(r[f]) ELSE Undef

\* v + 1
PlusOne(v) == IF v.is = "number" THEN Num(v.n + 1) ELSE NaN

\* a post as the client holds it
ToLocal(p) ==
    [p EXCEPT !.true_votes = Num(p.true_votes), !.false_votes = Num(p.false_votes)]

\* MOCK_USER.id
ClientUser == "u1"

\* a vote of another user
OtherVoteBodies ==
    {b \in VoteBodies : b.post_id = "p1" /\ b.user_id # ClientUser /\ b.vote_type = 1}

OneCreateBody == {b \in CreateBodies : b.id = "p1" /\ b.place_name = "Test Mosque"}

\* socket.on('post:created'): setPosts(prev => [newPost, ...prev])
OnCreated(list, newPost) == << ToLocal(newPost) >> \o list

\* socket.on('post:voted'): setPosts(prev => prev.map(p => p.id === update.post_id
\*   ? {...p, true_votes: update.true_votes, false_votes: update.false_votes} : p))
OnVoted(list, update) ==
    [i \in 1..Len(list) |->
        IF list[i].id = update.post_id
        THEN [list[i] EXCEPT !.true_votes = JsonField(update, "true_votes"),
                             !.false_votes = JsonField(update, "false_votes")]
        ELSE list[i]]

OnEvent(list, ev) ==
    IF ev.topic = "post:created" THEN OnCreated(list, ev.payload)
    ELSE OnVoted(list, ev.payload)

\* the optimistic update of handleVote
Optimistic(list, postId, type) ==
    [i \in 1..Len(list) |->
        IF list[i].id = postId
        THEN [list[i] EXCEPT !.true_votes = IF type = 1 THEN PlusOne(@) ELSE @,
                             !.false_votes = IF type # 1 THEN PlusOne(@) ELSE @]
        ELSE list[i]]

Holds(list, id) == \E i \in 1..Len(list) : list[i].id = id

\* The emit reaching every socket that is not connected as well
Broadcast_ToAll ==
    /\ Len(emitted) + Len(emits') <= MaxEmits
    /\ emitted' = emitted \o [i \in 1..Len(emits') |-> [ev |-> emits'[i], to |-> connected]]
    /\ inbox' = [c \in Clients |->
                   inbox[c] \o [i \in 1..Len(emits') |->
                                   [n |-> Len(emitted) + i, ev |-> emits'[i]]]]

\* ioInstance.emit seen from the sockets: the events of this handler, numbered
\* in the order of emission, are on their way to the clients they were sent to
Broadcast ==
    /\ Len(emitted) + Len(emits') <= MaxEmits
    /\ emitted' = emitted \o [i \in 1..Len(emits') |-> [ev |-> emits'[i], to |-> connected]]
    /\ inbox' = [c \in Clients |->
                   inbox[c] \o [i \in 1..Len(recv'[c]) |->
                                   [n |-> Len(emitted) + i, ev |-> recv'[c][i]]]]

\* the number of the event this vote emitted, 0 if it emitted none
VoteEvent == IF emits' # <<>> THEN Len(emitted') ELSE 0

\* POST /api/posts of some client: the post is created once
ServerCreate(b, o, f) ==
    /\ posts = {} /\ Len(memoryPosts) = Len(SeedPosts)
    /\ CreatePost(b, o, f)
    /\ Broadcast
    /\ UNCHANGED <<requestVars, startVars, getDbVars, local, fetch, pending, clicks, handled, voteEvent, synced>>

\* POST /api/votes of a user whose client is not followed
ServerVote(b, o, f) ==
    /\ CastVote(b, o, f)
    /\ Broadcast
    /\ voteEvent' = VoteEvent
    /\ UNCHANGED <<requestVars, startVars, getDbVars, local, fetch, pending, clicks, handled, synced>>

\* POST /api/votes sent by handleVote of client c
ServerVoteOwn(c, o, f) ==
    /\ pending[c] # <<>>
    /\ CastVote(Head(pending[c]), o, f)
    /\ Broadcast
    /\ voteEvent' = VoteEvent
    /\ pending' = [pending EXCEPT ![c] = Tail(@)]
    /\ UNCHANGED <<requestVars, startVars, getDbVars, local, fetch, clicks, handled, synced>>

\* GET /api/posts sent by the mount effect of client c
ServerList(c, o, f) ==
    /\ fetch[c].state = "sent"
    /\ ListPosts(o, f)
    /\ fetch' = [fetch EXCEPT ![c] = [state |-> "answered", body |-> res'.body]]
    /\ UNCHANGED <<requestVars, startVars, getDbVars, inbox, local, pending, clicks, emitted, handled,
                   voteEvent, synced>>

\* .then(data => setPosts(data))
FetchDone(c) ==
    /\ fetch[c].state = "answered"
    /\ local' = [local EXCEPT ![c] =
                    [i \in 1..Len(fetch[c].body) |-> ToLocal(fetch[c].body[i])]]
    /\ fetch' = [fetch EXCEPT ![c] = [state |-> "done", body |-> <<>>]]
    /\ UNCHANGED <<serverVars, requestVars, startVars, getDbVars, inbox, pending, clicks, emitted, handled,
                   voteEvent, synced>>

\* handleVote(postId, type) on a post the client shows
HandleVote(c, postId, type) ==
    /\ clicks[c] < MaxClicks
    /\ Holds(local[c], postId)
    /\ local' = [local EXCEPT ![c] = Optimistic(@, postId, type)]
    /\ pending' = [pending EXCEPT ![c] =
                      Append(@, [post_id |-> postId, user_id |-> ClientUser,
                                 vote_type |-> type])]
    /\ clicks' = [clicks EXCEPT ![c] = @ + 1]
    /\ UNCHANGED <<serverVars, requestVars, startVars, getDbVars, inbox, fetch, emitted, handled,
                   voteEvent, synced>>

\* the socket of client c hands its next event to the handler
ClientReceive(c) ==
    /\ inbox[c] # <<>>
    /\ LET m == Head(inbox[c]) IN
       /\ local' = [local EXCEPT ![c] = OnEvent(@, m.ev)]
       /\ handled' = [handled EXCEPT ![c] = Append(@, m.n)]
       /\ synced' = IF m.ev.topic = "post:voted" /\ Holds(local[c], m.ev.payload.post_id)
                     THEN [synced EXCEPT ![c] = m.n] ELSE synced
    /\ inbox' = [inbox EXCEPT ![c] = Tail(@)]
    /\ UNCHANGED <<serverVars, requestVars, startVars, getDbVars, fetch, pending, clicks, emitted, voteEvent>>

\* the socket of client c connects
ClientConnect(c) == Connect(c) /\ UNCHANGED otherVars

\* the socket of client c closes: the events on their way to it arrive or are lost
ClientDisconnect(c) ==
    /\ Disconnect(c)
    /\ \E arrive \in BOOLEAN :
          inbox' = IF arrive THEN inbox ELSE [inbox EXCEPT ![c] = <<>>]
    /\ UNCHANGED <<requestVars, startVars, getDbVars, local, fetch, pending, clicks, emitted, handled,
                   voteEvent, synced>>

NextClient ==
    \/ \E b \in OneCreateBody, o \in DbOutcomes : \E f \in Fails(o, 3) : ServerCreate(b, o, f)
    \/ \E b \in OtherVoteBodies, o \in DbOutcomes : \E f \in Fails(o, 2) :
          ServerVote(b, o, f)
    \/ \E c \in Clients, o \in DbOutcomes : \E f \in Fails(o, 2) : ServerVoteOwn(c, o, f)
    \/ \E c \in Clients, o \in DbOutcomes : \E f \in Fails(o, 1) : ServerList(c, o, f)
    \/ \E c \in Clients : FetchDone(c)
    \/ \E c \in Clients, type \in VoteTypes : HandleVote(c, "p1", type)
    \/ \E c \in Clients : ClientReceive(c)
    \/ \E c \in Clients : ClientConnect(c)
    \/ \E c \in Clients : ClientDisconnect(c)

SpecClient == Init /\ [][NextClient]_vars

\* The channel alone: creates and votes of users whose clients are not
\* followed, and the socket of one client that only listens
ChannelVoteBodies ==
    {b \in VoteBodies : b.post_id = "p1" /\ (b.user_id = ClientUser \/ b.vote_type = 1)}

NextChannel ==
    \/ \E b \in OneCreateBody, o \in DbOutcomes : \E f \in Fails(o, 3) : ServerCreate(b, o, f)
    \/ \E b \in ChannelVoteBodies, o \in DbOutcomes : \E f \in Fails(o, 2) :
          ServerVote(b, o, f)
    \/ \E c \in Clients : ClientReceive(c)
    \/ \E c \in Clients : ClientConnect(c)
    \/ \E c \in Clients : ClientDisconnect(c)

SpecChannel == Init /\ [][NextChannel]_vars

----------------------------------------------------------------------------
(* Starting up.  startServer and getDb are async functions: each runs to    *)
(* its first await in the step that calls it and resumes in a later step,   *)
(* and other calls run in between.  The handlers above take getDb for one   *)
(* step with their bodies; here its two halves are separate.                *)

\* what starting the server and opening the database leave alone
idleVars == <<nodeEnv, users, posts, votes, memoryPosts, now, connected, req, res,
              emits, recv, lastCast, requestVars, clientVars>>

\* startServer() from its call to its first await or its return.  The module
\* calls it while loading, outside production; the serverless handler calls it
\* `if (!cachedApp)`, once the module is loaded.
StartCall(s) ==
    /\ starts[s].pc = "idle"
    /\ IF s = "module" THEN nodeEnv # "production"
       ELSE /\ cachedApp = 0
            /\ nodeEnv = "production" \/ starts["module"].pc # "idle"
    /\ IF appInstance # 0
       THEN /\ starts' = [starts EXCEPT ![s] = [pc |-> "returned", app |-> appInstance]]
            /\ UNCHANGED <<ioInstance, appInstance, apps, httpServers, routes, listens>>
       ELSE /\ apps' = apps + 1
            /\ httpServers' = httpServers + 1
            /\ ioInstance' = (nodeEnv # "production")
            /\ appInstance' = apps + 1
            /\ routes' = routes + 1
            /\ IF nodeEnv # "production"
               THEN /\ starts' = [starts EXCEPT ![s] = [pc |-> "vite", app |-> apps + 1]]
                    /\ UNCHANGED listens
               ELSE /\ starts' = [starts EXCEPT ![s] = [pc |-> "returned", app |-> apps + 1]]
                    /\ listens' = listens + 1
    /\ UNCHANGED <<cachedApp, db, getDbVars, idleVars>>

\* startServer() after `await createViteServer(...)`: httpServer.listen(PORT, ...),
\* io.on("connection"), return { app, httpServer }
StartResume(s) ==
    /\ starts[s].pc = "vite"
    /\ listens' = listens + 1
    /\ starts' = [starts EXCEPT ![s].pc = "returned"]
    /\ UNCHANGED <<ioInstance, appInstance, cachedApp, apps, httpServers, routes, db,
                   getDbVars, idleVars>>

\* The caller after its startServer() has resolved: the module's
\* .then(({ httpServer }) => httpServer.listen(3000, ...)), the serverless
\* handler's cachedApp = app
StartDone(s) ==
    /\ starts[s].pc = "returned"
    /\ IF s = "module"
       THEN listens' = listens + 1 /\ UNCHANGED cachedApp
       ELSE cachedApp' = starts[s].app /\ UNCHANGED listens
    /\ starts' = [starts EXCEPT ![s].pc = "done"]
    /\ UNCHANGED <<ioInstance, appInstance, apps, httpServers, routes, db, getDbVars,
                   idleVars>>

\* a request can reach a handler: the routes are registered and the server
\* listens or the serverless handler holds the app
Serving == routes > 0 /\ (listens > 0 \/ cachedApp # 0)

\* getDb() of a request from its call to its await or its return:
\* if (db) return db; ... await import("better-sqlite3")
GetDbCall(r) ==
    /\ Serving
    /\ calls[r].pc = "idle"
    /\ calls' = [calls EXCEPT ![r] =
                    IF db # "none" THEN [pc |-> "returned", db |-> db, n |-> dbObject]
                    ELSE [pc |-> "importing", db |-> "none", n |-> 0]]
    /\ UNCHANGED <<ioInstance, db, dbObject, opens, execs, startVars, idleVars>>

GetDbOutcomes == {"opened", "open throws", "exec throws"}

\* getDb() after the await: db = new Database(dbPath); db.exec(schema); on a
\* throw of either, db = the mock; return db
GetDbResume(r, outcome) ==
    /\ calls[r].pc = "importing"
    /\ opens' = IF outcome = "open throws" THEN opens ELSE opens + 1
    /\ execs' = IF outcome = "open throws" THEN execs ELSE execs + 1
    /\ db' = IF outcome = "opened" THEN "real" ELSE "mock"
    /\ dbObject' = IF outcome = "opened" THEN opens + 1 ELSE 0
    /\ calls' = [calls EXCEPT ![r] = [pc |-> "returned", db |-> db', n |-> dbObject']]
    /\ UNCHANGED <<ioInstance, startVars, idleVars>>

NextBoot ==
    \/ \E s \in Starts : StartCall(s)
    \/ \E s \in Starts : StartResume(s)
    \/ \E s \in Starts : StartDone(s)
    \/ \E r \in Requests : GetDbCall(r)
    \/ \E r \in Requests, outcome \in GetDbOutcomes : GetDbResume(r, outcome)

SpecBoot == InitBoot /\ [][NextBoot]_vars

----------------------------------------------------------------------------
(* Votes as any caller of the API can send them: the handler reads post_id  *)
(* and vote_type from req.body and binds them unchecked, and the votes      *)
(* table declares vote_type INTEGER without a CHECK and post_id without a   *)
(* FOREIGN KEY.                                                             *)

\* vote_type of a request body: 1 and 0 as the client sends them, 2 for any
\* other integer
SentVoteTypes == {0, 1, 2}

SentVoteBodies == [post_id : {"p1"}, user_id : UserIds, vote_type : SentVoteTypes]

NextBallots ==
    \/ \E b \in OneCreateBody, o \in DbOutcomes : \E f \in Fails(o, 3) :
          CreatePost(b, o, f) /\ UNCHANGED otherVars
    \/ \E b \in SentVoteBodies, o \in DbOutcomes : \E f \in Fails(o, 2) :
          CastVote(b, o, f) /\ UNCHANGED otherVars
    \/ \E o \in DbOutcomes : \E f \in Fails(o, 1) :
          ListPosts(o, f) /\ UNCHANGED otherVars

SpecBallots == Init /\ [][NextBallots]_vars

----------------------------------------------------------------------------
(* Claims *)

VotePairs == VotePostIds \X UserIds

\* this step is a handler's (the clock and the sockets stand still): a create,
\* a vote, a list
IsCreate == req'.kind = "create" /\ now' = now /\ connected' = connected
IsVote == req'.kind = "vote" /\ now' = now /\ connected' = connected
IsList == req'.kind = "list" /\ now' = now /\ connected' = connected

RowsOf(k) == {v \in votes : v.post_id = k[1] /\ v.user_id = k[2]}

\* C1: after any sequence of cast-vote requests the votes table holds at most
\* one row per (post_id, user_id), and that row's vote_type is the value of the
\* most recent cast-vote of that user on that post whose upsert the store ran.
C1_OneVotePerPair ==
    \A k \in VotePairs :
        /\ Cardinality(RowsOf(k)) <= 1
        /\ \A v \in RowsOf(k) : lastCast[k] = << v.vote_type >>
        /\ lastCast[k] # <<>> => RowsOf(k) # {}

\* C1 witness: a user's second vote on a post changed the stored value, and
\* another user has a row on the same post.
C1_Witness ==
    /\ req.kind = "vote" /\ req.revote
    /\ \E k \in VotePairs : Cardinality({v \in votes : v.post_id = k[1]}) = 2

\* The users whose latest stored vote on post pid is `type`
LatestVoters(pid, type) == {u \in UserIds : lastCast[<<pid, u>>] = <<type>>}

\* C2: every successful cast-vote on post P returns true_votes equal to the
\* number of distinct users whose latest vote on P is 1 and false_votes equal to
\* the number whose latest vote on P is 0, counted after this vote is applied.
C2_TalliesOfLatestVotes ==
    (req.kind = "vote" /\ req.path = "ok") =>
        LET body == res.body[1] IN
        /\ res.status = 200
        /\ DOMAIN body = {"post_id", "true_votes", "false_votes"}
        /\ body.true_votes = Cardinality(LatestVoters(body.post_id, 1))
        /\ body.false_votes = Cardinality(LatestVoters(body.post_id, 0))

\* C3: every create-post answered with 201, from the store or from the
\* fallback list, returns a record with true_votes = 0 and false_votes = 0.
C3_CreatedTalliesZero ==
    (req.kind = "create" /\ res.status = 201) =>
        /\ res.body[1].true_votes = 0
        /\ res.body[1].false_votes = 0

\* C3 witness: a post was created in the store under an id that already has a
\* vote row.
C3_Witness ==
    /\ req.kind = "create" /\ req.path = "store" /\ res.status = 201
    /\ \E v \in votes : v.post_id = res.body[1].id

\* C4: a create-post whose place_name is missing or empty is answered with 400
\* and adds no users row, no posts row and no fallback entry, changes no vote
\* and emits no event.
C4_InvalidCreateChangesNothing ==
    [][(IsCreate /\ Falsy(req'.place_name)) =>
          /\ res'.status = 400
          /\ UNCHANGED <<users, posts, votes, memoryPosts>>
          /\ emits' = <<>>
          /\ recv' = NoRecv]_vars

\* C4 witness: a create-post was refused with 400 while a client was connected
\* and the store and the fallback list held created posts.
C4_Witness ==
    /\ req.kind = "create" /\ res.status = 400
    /\ connected # {} /\ posts # {} /\ Len(memoryPosts) > Len(SeedPosts)

\* The record the server stored for the post it answered with: the posts row on
\* the store path, the head of the fallback list on the fallback path
StoredAs(path, ps, list, rec) ==
    IF path = "store"
    THEN \E p \in ps : \A f \in DOMAIN p : p[f] = rec[f]
    ELSE list # <<>> /\ list[1] = rec

\* What every connected client was sent of the events evs, and no other client
SentToConnected(conn, evs, got) ==
    \A c \in Clients : got[c] = IF c \in conn THEN evs ELSE <<>>

\* C5 as claimed: every create-post answered with 201 emits exactly one
\* post:created event, sent once to each client connected at that moment, with
\* a payload equal to the stored record and to the 201 body.
C5_OneCreatedEventAlways ==
    [][(IsCreate /\ res'.status = 201) =>
          /\ Len(emits') = 1
          /\ emits'[1].topic = "post:created"
          /\ emits'[1].payload = res'.body[1]
          /\ StoredAs(req'.path, posts', memoryPosts', emits'[1].payload)
          /\ SentToConnected(connected, emits', recv')]_vars

\* C5 as amended: where the Socket.io server exists (NODE_ENV is not
\* production) every create-post answered with 201 emits exactly one
\* post:created event, sent once to each client connected at that moment, with
\* a payload equal to the stored record and to the 201 body; in production no
\* event is emitted and the 201 body still equals the stored record.
C5_OneCreatedEventWithChannel ==
    [][(IsCreate /\ res'.status = 201) =>
          /\ res'.body[1].id = req'.id
          /\ StoredAs(req'.path, posts', memoryPosts', res'.body[1])
          /\ SentToConnected(connected, emits', recv')
          /\ IF nodeEnv # "production"
             THEN /\ Len(emits') = 1
                  /\ emits'[1].topic = "post:created"
                  /\ emits'[1].payload = res'.body[1]
             ELSE emits' = <<>>]_vars

\* C5 witness: a post was created while a client was connected, and the client
\* was sent the one event.
C5_Witness ==
    /\ req.kind = "create" /\ res.status = 201
    /\ Len(emits) = 1 /\ recv["c1"] = emits
    /\ emits[1].payload = res.body[1]

\* C6 as claimed: every successful cast-vote emits exactly one post:voted event
\* whose payload is identical to the body of the response.
C6_OneVotedEventAlways ==
    [][(IsVote /\ req'.path = "ok") =>
          /\ Len(emits') = 1
          /\ emits'[1].topic = "post:voted"
          /\ emits'[1].payload = res'.body[1]]_vars

\* C6 as amended: where the Socket.io server exists (NODE_ENV is not
\* production) every successful cast-vote emits exactly one post:voted event
\* whose payload is identical to the body of the response; in production it
\* emits none.
C6_OneVotedEventWithChannel ==
    [][(IsVote /\ req'.path = "ok") =>
          /\ res'.status = 200
          /\ res'.body[1].post_id = req'.id
          /\ IF nodeEnv # "production"
             THEN /\ Len(emits') = 1
                  /\ emits'[1].topic = "post:voted"
                  /\ emits'[1].payload = res'.body[1]
                  /\ SentToConnected(connected, emits', recv')
             ELSE emits' = <<>> /\ recv' = NoRecv]_vars

\* C6 witness: a vote was answered from the store with a counted tally and its
\* one event went to the connected client.
C6_Witness ==
    /\ req.kind = "vote" /\ req.path = "ok"
    /\ Len(emits) = 1 /\ recv["c1"] = emits
    /\ emits[1].payload = res.body[1]
    /\ "true_votes" \in DOMAIN res.body[1] /\ res.body[1].true_votes = 2

\* positions i..j of a response body are ordered by created_at, newest first
Descending(body, i, j) ==
    \A x, y \in i..j : x < y => body[x].created_at.t >= body[y].created_at.t

\* positions 1..n of a response body are the rows of posts, each once
AllStorePosts(body, n) ==
    /\ n = Cardinality(posts)
    /\ \A p \in posts : \E i \in 1..n : \A f \in DOMAIN p : body[i][f] = p[f]

\* positions n+1.. of a response body are the fallback list
ThenFallbackList(body, n) ==
    /\ Len(body) = n + Len(memoryPosts)
    /\ \A i \in 1..Len(memoryPosts) : body[n + i] = memoryPosts[i]

\* C7 as claimed: every list-posts response consists of all store-backed posts
\* followed by all fallback-list posts, each group ordered by creation time,
\* newest first.
C7_StoreThenFallbackAlways ==
    req.kind = "list" =>
        LET n == Cardinality(posts) IN
        /\ Len(res.body) >= n
        /\ AllStorePosts(res.body, n)
        /\ ThenFallbackList(res.body, n)
        /\ Descending(res.body, 1, n)
        /\ Descending(res.body, n + 1, Len(res.body))

\* C7 as amended: every list-posts response whose store query did not throw
\* consists of all store-backed posts followed by all fallback-list posts, each
\* group ordered by created_at, newest first, the seeded posts last; a response
\* whose store query threw consists of the fallback list alone.
C7_StoreThenFallbackUnlessQueryThrows ==
    req.kind = "list" =>
        IF req.threw
        THEN res.body = memoryPosts
        ELSE LET n == Cardinality(posts) IN
             /\ Len(res.body) >= n + Len(SeedPosts)
             /\ AllStorePosts(res.body, n)
             /\ ThenFallbackList(res.body, n)
             /\ Descending(res.body, 1, n)
             /\ Descending(res.body, n + 1, Len(res.body))
             /\ SubSeq(res.body, Len(res.body) - Len(SeedPosts) + 1, Len(res.body))
                    = SeedPosts

\* C7 witness: a list answered from the store with two store posts of
\* different creation times ahead of two created fallback posts.
C7_Witness ==
    /\ req.kind = "list" /\ ~req.threw
    /\ Cardinality(posts) = 2
    /\ res.body[1].created_at.t > res.body[2].created_at.t
    /\ Len(memoryPosts) = Len(SeedPosts) + 2
    /\ memoryPosts[1].created_at.t > memoryPosts[2].created_at.t

\* C8: every post of a list-posts response, store-backed or fallback, carries
\* true_votes and false_votes equal to the number of vote rows stored for its
\* id with vote_type 1 and 0.
C8_ListedTalliesCounted ==
    req.kind = "list" =>
        \A i \in 1..Len(res.body) :
            /\ res.body[i].true_votes = CountVotes(votes, res.body[i].id, 1)
            /\ res.body[i].false_votes = CountVotes(votes, res.body[i].id, 0)

\* C9: when the store fails (a statement throws, or the store is the mock), a
\* create-post with a valid place_name still answers 201 and puts the post at
\* the front of the fallback list, and a list-posts whose query throws still
\* answers with exactly the fallback list.
C9_StoreFailureFallsBack ==
    [][/\ (IsCreate /\ ~Falsy(req'.place_name) /\ (req'.threw \/ db' = "mock")) =>
            /\ res'.status = 201
            /\ res'.body[1].id = req'.id
            /\ res'.body[1].place_name = req'.place_name
            /\ memoryPosts' = << res'.body[1] >> \o memoryPosts
       /\ (IsList /\ req'.threw) =>
            /\ res'.status = 200
            /\ res'.body = memoryPosts
            /\ memoryPosts' = memoryPosts]_vars

\* C9 witness: the post insert succeeded and a later statement threw, so the
\* post is in the store and at the front of a fallback list that already held
\* a created post.
C9_Witness ==
    /\ req.kind = "create" /\ req.threw /\ res.status = 201
    /\ Len(memoryPosts) = Len(SeedPosts) + 2
    /\ memoryPosts[1] = res.body[1]
    /\ \E p \in posts : p.id = res.body[1].id /\ p.created_at.t = res.body[1].created_at.t

\* C10: when the upsert or the tally read of a cast-vote throws, the request is
\* answered with status 200 and the body {post_id, true_votes: 0,
\* false_votes: 0}, and no event is emitted.
C10_FailedVoteAnswersZero ==
    [][(IsVote /\ req'.threw) =>
          /\ res'.status = 200
          /\ res'.body = << [post_id |-> req'.id, true_votes |-> 0,
                             false_votes |-> 0] >>
          /\ emits' = <<>>
          /\ recv' = NoRecv]_vars

\* C10 witness: the tally read of a vote threw after its upsert had stored the
\* vote, while a client was connected.
C10_Witness ==
    /\ req.kind = "vote" /\ req.threw /\ connected # {}
    /\ \E v \in votes : v.post_id = res.body[1].post_id
    /\ res.body[1].true_votes = 0 /\ res.body[1].false_votes = 0

\* C11: when the store insert of a create-report throws, the request is still
\* answered with the generic success acknowledgment (201, {success: true}),
\* never with an error response.
C11_FailedReportAnswersSuccess ==
    (req.kind = "report" /\ req.threw) =>
        /\ res.status = 201
        /\ res.body = << [success |-> TRUE] >>

\* a response body or event payload that carries both tallies as counts
HasTallyPair(r) ==
    /\ {"true_votes", "false_votes"} \subseteq DOMAIN r
    /\ r.true_votes \in Nat
    /\ r.false_votes \in Nat

\* C12: every response to a cast-vote, whichever database getDb returned (the
\* real one, one whose statement throws, the mock), carries both true_votes
\* and false_votes as non-negative integers, and so does every post:voted
\* payload emitted.
C12_CompleteTallyPair ==
    req.kind = "vote" =>
        /\ HasTallyPair(res.body[1])
        /\ \A i \in 1..Len(emits) : HasTallyPair(emits[i].payload)

\* a users row exists for the id
HasUser(uid) == \E u \in users : u.id = uid

\* C13: in every reachable state each post of a list-posts response has a
\* user_id for which a users row exists, every stored post has its user, and
\* a user_id has exactly one users row, named as when it was inserted.
C13_ListedPostsHaveUser ==
    /\ req.kind = "list" => \A i \in 1..Len(res.body) : HasUser(res.body[i].user_id)
    /\ \A p \in posts : HasUser(p.user_id)
    /\ \A u, v \in users : u.id = v.id => u = v
    /\ \A u \in users : u.name = "Anonymous User"

\* the fields of a post that a list-posts response must repeat
PostFields ==
    {"id", "user_id", "place_name", "description", "lat", "lng", "distribution_time"}

\* the response body lists the post a, tallies aside
Lists(body, a) == \E i \in 1..Len(body) : \A f \in PostFields : body[i][f] = a[f]

\* the 201 body a was read back from the store (SQL timestamp), not built as
\* memPost (ISO timestamp)
FromStore(a) == a.created_at.fmt = "sql"

\* C14 as claimed: once a create-post was answered with 201, every later
\* list-posts response contains that post with the same id, user_id,
\* place_name, description, lat, lng and distribution_time.
C14_AnsweredPostsListedAlways ==
    req.kind = "list" => \A a \in answered : Lists(res.body, a)

\* C14 as amended: once a create-post was answered with 201, every later
\* list-posts response whose query ran on the real database without throwing
\* contains that post with the same seven fields, and a post answered from
\* the fallback list is contained in every later list-posts response at all.
C14_AnsweredPostsListedUnlessQueryFails ==
    req.kind = "list" =>
        \A a \in answered :
            \/ Lists(res.body, a)
            \/ FromStore(a) /\ (req.threw \/ db # "real")

\* C14 witness: after a vote and a report, a list answered from the store
\* contains a post answered from the store, now with a counted vote, and a
\* post answered from the fallback list.
C14_Witness ==
    /\ req.kind = "list" /\ ~req.threw
    /\ votes # {} /\ reports # <<>>
    /\ \E a, b \in answered :
          /\ FromStore(a) /\ ~FromStore(b) /\ a.id # b.id
          /\ Lists(res.body, a) /\ Lists(res.body, b)
          /\ \E i \in 1..Len(res.body) :
                res.body[i].id = a.id /\ res.body[i].true_votes # a.true_votes

\* the numbers in a sequence strictly increase
Increasing(ns) == \A i, j \in 1..Len(ns) : i < j => ns[i] < ns[j]

\* the numbers of the events on their way to client c
InFlight(c) == [i \in 1..Len(inbox[c]) |-> inbox[c][i].n]

\* C15: each emitted post:created or post:voted event reaches a client at
\* most once, in the order of emission, and only a client whose socket was
\* connected when the event was emitted; a client that connects later never
\* receives it.
C15_AtMostOnceToConnected ==
    \A c \in Clients :
        /\ Increasing(handled[c] \o InFlight(c))
        /\ \A i \in 1..Len(handled[c]) : c \in emitted[handled[c][i]].to
        /\ \A i \in 1..Len(inbox[c]) :
              /\ c \in emitted[inbox[c][i].n].to
              /\ inbox[c][i].ev = emitted[inbox[c][i].n].ev

\* C15 witness: a client whose socket connected after the first event was
\* emitted has handled the second event and not the first.
C15_Witness ==
    /\ Len(emitted) = 2
    /\ emitted[1].to = {} /\ emitted[2].to = {"c1"}
    /\ handled["c1"] = << 2 >> /\ inbox["c1"] = <<>>

\* the payload carries the tallies the store counts for its post
CarriesStoreTallies(payload) ==
    /\ HasTallyPair(payload)
    /\ payload.true_votes = CountVotes(votes, payload.post_id, 1)
    /\ payload.false_votes = CountVotes(votes, payload.post_id, 0)

\* the numbers of the post:voted events emitted for a post
VotedEvents(pid) ==
    {i \in 1..Len(emitted) : /\ emitted[i].ev.topic = "post:voted"
                              /\ emitted[i].ev.payload.post_id = pid}

\* no later post:voted event was emitted for the same post
IsLastVoted(i, pid) == i \in VotedEvents(pid) /\ \A j \in VotedEvents(pid) : j <= i

\* C16: under any interleaving of cast-vote requests, the tallies of a
\* post:voted event are the store's tallies of its post when the handler has
\* emitted it, and the last post:voted event emitted for a post carries the
\* tallies the store holds for that post now.
C16_VotedEventsCarryStoreTallies ==
    /\ req.kind = "vote" =>
          \A i \in 1..Len(emits) : CarriesStoreTallies(emits[i].payload)
    /\ \A pid \in VotePostIds, i \in 1..Len(emitted) :
          IsLastVoted(i, pid) => CarriesStoreTallies(emitted[i].ev.payload)

\* every entry the list holds for the post has these tallies
TalliesAre(list, pid, tv, fv) ==
    \A i \in 1..Len(list) :
        list[i].id = pid => list[i].true_votes = Num(tv) /\ list[i].false_votes = Num(fv)

\* this step hands client c a post:voted event for a post it holds
AppliesVoted(c) ==
    /\ handled'[c] # handled[c]
    /\ Head(inbox[c]).ev.topic = "post:voted"
    /\ Holds(local[c], Head(inbox[c]).ev.payload.post_id)

\* client c has applied the event of the last vote the server handled, and has
\* no vote of its own under way
AppliedLastVote(c) == voteEvent > 0 /\ synced[c] = voteEvent /\ pending[c] = <<>>

\* C17: when a client that holds post P has handled the post:voted event of a
\* vote on P, its tallies for P are the tallies of that event, whatever
\* optimistic increments handleVote applied before; and while no further vote
\* on P is made its tallies for P are those the store counts.
C17_ClientTalliesFollowEvents ==
    [][\A c \in Clients :
          /\ AppliesVoted(c) =>
                LET update == Head(inbox[c]).ev.payload IN
                /\ HasTallyPair(update)
                /\ TalliesAre(local'[c], update.post_id,
                              update.true_votes, update.false_votes)
          /\ AppliedLastVote(c)' =>
                LET pid == emitted'[voteEvent'].ev.payload.post_id IN
                TalliesAre(local'[c], pid, CountVotes(votes', pid, 1),
                           CountVotes(votes', pid, 0))]_vars

\* C19: after any sequence of create-post requests (two with the same id, or
\* one whose store statement throws after the post row was inserted), no
\* list-posts response contains two posts with the same id.
C19_ListedIdsDistinct ==
    req.kind = "list" =>
        \A i, j \in 1..Len(res.body) : res.body[i].id = res.body[j].id => i = j

\* the calls of startServer that have returned
Returned == {s \in Starts : starts[s].pc \in {"returned", "done"}}

\* C18: for any number of calls of startServer in one process, overlapping
\* ones included, one express app and one HTTP server are constructed, the
\* API routes are registered once, every call returns that same app, and
\* listen is invoked on the HTTP server at most once.
C18_OneAppOneListen ==
    /\ apps <= 1 /\ httpServers <= 1 /\ routes <= 1
    /\ \A s \in Returned : starts[s].app = appInstance /\ appInstance = 1
    /\ listens <= 1

\* the requests whose getDb has returned
Answered == {r \in Requests : calls[r].pc = "returned"}

\* C20: when several requests arrive before the database is initialized,
\* getDb opens the database and runs the schema at most once, every request
\* gets the same database object, and a real database object once installed
\* in db is never replaced by the mock.
C20_DatabaseOpenedOnce ==
    [][/\ opens' <= 1 /\ execs' <= 1
       /\ \A q, r \in Answered' : calls'[q].db = calls'[r].db /\ calls'[q].n = calls'[r].n
       /\ db = "real" => db' = "real" /\ dbObject' = dbObject]_vars

\* the events of post:created that client c has handled
CreatedHandled(c) ==
    {n \in 1..Len(emitted) :
        /\ emitted[n].ev.topic = "post:created"
        /\ \E i \in 1..Len(handled[c]) : handled[c][i] = n}

\* the client's list holds no id twice
LocalIdsDistinct(c) ==
    \A i, j \in 1..Len(local[c]) : local[c][i].id = local[c][j].id => i = j

\* the server's own list holds no id twice: no post of the store has a copy
\* in the fallback list
ServerIdsDistinct ==
    \A p \in posts : \A i \in 1..Len(memoryPosts) : memoryPosts[i].id # p.id

\* C21: under any ordering of the arrival of the initial GET /api/posts
\* response and of post:created events at a client, the client's list never
\* contains two entries with the same id (the server's list holding none
\* twice) and never lacks a post whose post:created event the client has
\* handled.
C21_LocalListConsistent ==
    \A c \in Clients :
        /\ ServerIdsDistinct => LocalIdsDistinct(c)
        /\ \A n \in CreatedHandled(c) : Holds(local[c], emitted[n].ev.payload.id)

\* a post with this id exists, in the posts table or in the fallback list
PostExists(pid) ==
    \/ \E p \in posts : p.id = pid
    \/ \E i \in 1..Len(memoryPosts) : memoryPosts[i].id = pid

\* the users who have a vote row on the post
Voters(pid) == {v.user_id : v \in {w \in votes : w.post_id = pid}}

\* C22: in every reachable state each row of the votes table refers to a
\* post that exists, in the posts table or in the fallback list, and has
\* vote_type 0 or 1, so that for every post true_votes + false_votes is the
\* number of distinct users who have voted on it.
C22_VoteRowsValid ==
    /\ \A v \in votes : PostExists(v.post_id) /\ v.vote_type \in {0, 1}
    /\ \A v \in votes :
          CountVotes(votes, v.post_id, 1) + CountVotes(votes, v.post_id, 0)
              = Cardinality(Voters(v.post_id))

====
